---- MODULE Spec2Model ----
(***************************************************************************)
(* react-event-context: createEventContext(schema) and the Provider's      *)
(* send / subscribe, with the hooks useSend, useEventHandler and           *)
(* useSubscribe (src/index.tsx), over the schema of the test suite.        *)
(*                                                                         *)
(* Control is a call stack: each running send is a frame holding the       *)
(* position of handlers.current.forEach; user code (the page, or the body  *)
(* of a subscriber that is being invoked) calls the bus in between.        *)
(***************************************************************************)
EXTENDS Naturals, Sequences, FiniteSets, TLC

VARIABLES
    handlers,   \* bus -> the Set handlers.current, in insertion order
    stack,      \* the running send calls, outermost first
    exc,        \* the error being thrown in the running user code, or NoError
    caps,       \* the unsubscribe closures returned by subscribe so far
    nextW,      \* how many wrappedHandler closures useEventHandler has created
    console,    \* what console.error has been called with
    sends,      \* history: one record per send call made so far
    log,        \* history: the subscriber invocations, in the order they happened
    removed,    \* history: the handlers unsubscribed and not subscribed since
    comps       \* the components that register through a hook's effect

vars == <<handlers, stack, exc, caps, nextW, console, sends, log, removed,
          comps>>

(***************************************************************************)
(* Bounds of the model.                                                    *)
(***************************************************************************)
MaxSends == 2      \* send calls in one behaviour
MaxCaps == 2       \* subscribe calls in one behaviour
MaxEffects == 3    \* effects run by the components in one behaviour
MaxHookSends == 1  \* send calls in one behaviour of the components

(***************************************************************************)
(* Values: JavaScript values by typeof.                                    *)
(***************************************************************************)
Num(n) == [t |-> "number", n |-> n, s |-> ""]
Str(s) == [t |-> "string", n |-> 0, s |-> s]
Undefined == [t |-> "undefined", n |-> 0, s |-> ""]

Keys == {"x", "y", "elementId", "extra"}

Obj(type, x, y, elementId, extra) ==
    [type |-> type,
     f |-> [k \in Keys |->
              CASE k = "x" -> x
                [] k = "y" -> y
                [] k = "elementId" -> elementId
                [] k = "extra" -> extra]]

\* The tagged union of the test suite: for each discriminant, the declared
\* keys and the typeof each must have.
TestEventSchema ==
    { [type |-> "CLICK", shape |-> [x |-> "number", y |-> "number"]],
      [type |-> "HOVER", shape |-> [elementId |-> "string"]] }

EventTypes == { v.type : v \in TestEventSchema }

\* What callers pass to send.
ClickEvent == Obj(Str("CLICK"), Num(10), Num(20), Undefined, Undefined)
HoverEvent == Obj(Str("HOVER"), Undefined, Undefined, Str("test-div"), Undefined)
BadClick == Obj(Str("CLICK"), Str("not-a-number"), Undefined, Undefined, Undefined)
ExtraClick == Obj(Str("CLICK"), Num(10), Num(20), Undefined, Str("more"))

Candidates == {ClickEvent, HoverEvent, BadClick, ExtraClick}

\* Further candidates: a declared key missing, a discriminant the schema does
\* not list, an undeclared key next to a declared one of the wrong type.
PartialClick == Obj(Str("CLICK"), Num(10), Undefined, Undefined, Undefined)
UnknownEvent == Obj(Str("SCROLL"), Num(10), Num(20), Undefined, Undefined)
ExtraHover == Obj(Str("HOVER"), Num(10), Undefined, Str("test-div"), Undefined)

\* The events sent while components mount, render again and unmount.
HookEvents == {ClickEvent, HoverEvent}

SchemaCandidates == Candidates \cup {PartialClick, UnknownEvent, ExtraHover}

\* The variants whose discriminant and declared keys `event` satisfies.
MatchingTag(event) == { v \in TestEventSchema : event.type = Str(v.type) }
Matching(event) ==
    { v \in TestEventSchema :
        /\ event.type = Str(v.type)
        /\ \A k \in DOMAIN v.shape : event.f[k].t = v.shape[k] }

\* schema.safeParse(event): z.object keeps the declared keys and strips the
\* others from its output.
safeParse(event) ==
    IF Matching(event) = {}
    THEN [success |-> FALSE, data |-> event]
    ELSE LET v == CHOOSE m \in Matching(event) : TRUE
         IN [success |-> TRUE,
             data |-> [type |-> event.type,
                       f |-> [k \in Keys |->
                                IF k \in DOMAIN v.shape
                                THEN event.f[k] ELSE Undefined]]]

(***************************************************************************)
(* The buses, the user's handler functions and the registry.               *)
(***************************************************************************)
Buses == {"A", "B"}          \* two rendered Provider instances
NoProvider == "null"         \* useContext(EventContext) with no Provider above
Fns == {"f1", "f2"}          \* handler functions passed to useSubscribe
TypedFns == {"g"}            \* handler functions passed to useEventHandler
Comps == {1, 2}              \* components that render a hook of the bus
Deps == {0, 1}               \* values of the entry a component puts in deps
NoError == "none"
SubscriberFault == "SubscriberFault"   \* whatever a handler function throws

\* useSubscribe registers the handler function itself.
Plain(fn) == [w |-> 0, eventType |-> "*", fn |-> fn]
\* useEventHandler registers a fresh closure over eventType and handler.
wrappedHandler(n, eventType, fn) == [w |-> n, eventType |-> eventType, fn |-> fn]

\* handlers is a ref of the Provider instance: each Provider has its own Set.
SharedRegistry(bus) == "A"
Registry(bus) == bus

Range(s) == { s[i] : i \in DOMAIN s }
IndexOf(s, h) == CHOOSE i \in DOMAIN s : s[i] = h
Remove(s, p) == [i \in 1..(Len(s) - 1) |-> IF i < p THEN s[i] ELSE s[i + 1]]

\* Set.prototype.add: a value already in the Set keeps its place.
ArrayPush(s, h) == Append(s, h)
SetAdd(s, h) == IF h \in Range(s) THEN s ELSE Append(s, h)
\* Set.prototype.delete.
DeleteNothing(s, h) == s
SetDelete(s, h) == IF h \in Range(s) THEN Remove(s, IndexOf(s, h)) ELSE s

\* A forEach that is running over the Set `reg` keeps its place when an
\* entry it has passed is deleted: the entries behind it move up by one.
AdjustFrames(st, reg, h) ==
    [i \in DOMAIN st |->
        IF /\ Registry(st[i].bus) = reg
           /\ h \in Range(handlers[reg])
           /\ IndexOf(handlers[reg], h) <= st[i].idx
        THEN [st[i] EXCEPT !.idx = @ - 1]
        ELSE st[i]]

Top == stack[Len(stack)]
Pop(st) == SubSeq(st, 1, Len(st) - 1)
\* User code is running: the page itself, or the body of a handler function.
InUserCode == exc = NoError /\ (IF stack = <<>> THEN TRUE ELSE Top.pc = "body")
AtTopLevel == exc = NoError /\ stack = <<>>

SameMessage(hook) == "useSend must be used within an EventContext.Provider"
ProviderError(hook) == hook \o " must be used within an EventContext.Provider"

\* A component that is not rendered.
Unmounted ==
    [mounted |-> FALSE, phase |-> "idle", hook |-> "none", context |-> NoProvider,
     eventType |-> "*", dep |-> 0, fn |-> "none",
     registered |-> Plain("none"), cap |-> 0, at |-> 0]

Init ==
    /\ handlers = [b \in Buses |-> <<>>]
    /\ stack = <<>>
    /\ exc = NoError
    /\ caps = <<>>
    /\ nextW = 0
    /\ console = <<>>
    /\ sends = <<>>
    /\ log = <<>>
    /\ removed = {}
    /\ comps = [i \in Comps |-> Unmounted]

(***************************************************************************)
(* The hooks.                                                              *)
(***************************************************************************)
\* useSend(): a component under the Provider `context` (or under none).
useSend(context) ==
    /\ AtTopLevel
    /\ IF context = NoProvider
       THEN exc' = ProviderError("useSend")
       ELSE UNCHANGED exc    \* returns context.send
    /\ UNCHANGED <<handlers, stack, caps, nextW, console, sends, log, removed, comps>>

\* Provider.subscribe(handler) on the bus `bus`: the new Set and the closure
\* it returns.
subscribe(bus, handler) ==
    /\ handlers' = [handlers EXCEPT ![Registry(bus)] = SetAdd(@, handler)]
    /\ caps' = Append(caps, [bus |-> bus, handler |-> handler, called |-> FALSE,
                             at |-> Len(sends),
                             running |-> { sid \in DOMAIN sends :
                                             sends[sid].status = "running" }])
    /\ removed' = { r \in removed : ~(r.bus = bus /\ r.handler = handler) }

\* useSubscribe(handler) and its effect.
useSubscribe(context, fn) ==
    /\ IF context = NoProvider
       THEN /\ AtTopLevel
            /\ exc' = ProviderError("useSubscribe")
            /\ UNCHANGED <<handlers, caps, removed>>
       ELSE /\ InUserCode
            /\ Len(caps) < MaxCaps
            /\ subscribe(context, Plain(fn))
            /\ UNCHANGED exc
    /\ UNCHANGED <<stack, nextW, console, sends, log, comps>>

\* useEventHandler(eventType, handler) and its effect.
useEventHandler(context, eventType, fn) ==
    /\ IF context = NoProvider
       THEN /\ AtTopLevel
            /\ exc' = ProviderError("useEventHandler")
            /\ UNCHANGED <<handlers, caps, nextW, removed>>
       ELSE /\ InUserCode
            /\ Len(caps) < MaxCaps
            /\ nextW' = nextW + 1
            /\ subscribe(context, wrappedHandler(nextW + 1, eventType, fn))
            /\ UNCHANGED exc
    /\ UNCHANGED <<stack, console, sends, log, comps>>

\* The closure returned by subscribe: handlers.current.delete(handler).
runClosure(c) ==
    /\ handlers' = [handlers EXCEPT
                      ![Registry(caps[c].bus)] = SetDelete(@, caps[c].handler)]
    /\ stack' = IF handlers' = handlers THEN stack
                ELSE AdjustFrames(stack, Registry(caps[c].bus), caps[c].handler)
    /\ caps' = [caps EXCEPT ![c].called = TRUE]
    /\ removed' = IF \E r \in removed :
                          r.bus = caps[c].bus /\ r.handler = caps[c].handler
                  THEN removed
                  ELSE removed \cup {[bus |-> caps[c].bus,
                                      handler |-> caps[c].handler,
                                      at |-> Len(sends)]}
    /\ sends' = [sid \in DOMAIN sends |->
                   IF /\ handlers' # handlers
                      /\ \E i \in DOMAIN stack :
                            stack[i].sid = sid /\ stack[i].bus = caps[c].bus
                   THEN [sends[sid] EXCEPT !.unsubscribed = TRUE]
                   ELSE sends[sid]]

\* User code calls the closure it got from subscribe.
unsubscribe(c) ==
    /\ InUserCode
    /\ c \in DOMAIN caps
    /\ runClosure(c)
    /\ UNCHANGED <<exc, nextW, console, log, comps>>

(***************************************************************************)
(* Components: the render of a hook, its effect and the effect's cleanup.  *)
(***************************************************************************)
\* What the effect of the hook passes to context.subscribe.
HookHandler(hook, n, eventType, fn) ==
    IF hook = "useSubscribe" THEN Plain(fn) ELSE wrappedHandler(n, eventType, fn)

\* The dependency array of the effect: [context, eventType, ...deps], or
\* [context, ...deps] with useSubscribe, whose eventType here is always "*".
DepsWithHandler(c) == <<c.context, c.eventType, c.dep, c.fn>>
EffectDeps(c) == <<c.context, c.eventType, c.dep>>

\* No effect or cleanup of the current commit is still to run.
Committed == \A i \in Comps : comps[i].phase = "idle"

\* The event type a component of `hook` can pass.
TypeFits(hook, eventType) ==
    IF hook = "useSubscribe" THEN eventType = "*" ELSE eventType \in EventTypes

\* First render of component i under the Provider `context`.
Mount(i, hook, context, eventType, dep, fn) ==
    /\ AtTopLevel
    /\ Committed
    /\ ~comps[i].mounted
    /\ Len(caps) < MaxEffects
    /\ TypeFits(hook, eventType)
    /\ comps' = [comps EXCEPT ![i] =
                   [mounted |-> TRUE, phase |-> "effect", hook |-> hook,
                    context |-> context, eventType |-> eventType, dep |-> dep,
                    fn |-> fn, registered |-> Plain("none"), cap |-> 0,
                    at |-> Len(sends)]]
    /\ UNCHANGED <<handlers, stack, exc, caps, nextW, console, sends, log,
                   removed>>

\* The effect of component i runs: context.subscribe with the handler of the
\* last render.
RunEffect(i) ==
    /\ comps[i].phase = "effect"
    /\ LET c == comps[i]
           h == HookHandler(c.hook, nextW + 1, c.eventType, c.fn)
       IN /\ subscribe(c.context, h)
          /\ nextW' = IF c.hook = "useEventHandler" THEN nextW + 1 ELSE nextW
          /\ comps' = [comps EXCEPT ![i].phase = "idle",
                                    ![i].registered = h,
                                    ![i].cap = Len(caps) + 1]
    /\ UNCHANGED <<stack, exc, console, sends, log>>

\* Component i renders again: React compares the dependency arrays and, when
\* they differ, runs the cleanup of the last effect and schedules the effect.
Rerender(i, eventType, dep, fn) ==
    /\ AtTopLevel
    /\ Committed
    /\ comps[i].mounted
    /\ TypeFits(comps[i].hook, eventType)
    /\ LET new == [comps[i] EXCEPT !.eventType = eventType, !.dep = dep,
                                   !.fn = fn, !.at = Len(sends)]
       IN IF EffectDeps(new) # EffectDeps(comps[i])
          THEN /\ Len(caps) < MaxEffects
               /\ runClosure(comps[i].cap)
               /\ comps' = [comps EXCEPT ![i] = [new EXCEPT !.phase = "effect"]]
               /\ UNCHANGED <<exc, nextW, console, log>>
          ELSE /\ comps' = [comps EXCEPT ![i] = new]
               /\ UNCHANGED <<handlers, stack, exc, caps, nextW, console,
                              sends, log, removed>>

\* Component i leaves the tree: the cleanup of its effect runs.
Unmount(i) ==
    /\ AtTopLevel
    /\ Committed
    /\ comps[i].mounted
    /\ runClosure(comps[i].cap)
    /\ comps' = [comps EXCEPT ![i] = Unmounted]
    /\ UNCHANGED <<exc, nextW, console, log>>

(***************************************************************************)
(* send and its forEach.                                                   *)
(***************************************************************************)
\* The test send makes on safeParse's result before the forEach.
AcceptAll(result) == TRUE
Accepted(result) == result.success

\* The argument of handler(...) in send's forEach.
Delivered(event, result) == event

\* handlers.current.forEach visits the entry behind the ones it has passed,
\* in the Set as it is now.
HasNext(frame) == frame.idx < Len(handlers[Registry(frame.bus)])
NextHandler(frame) == handlers[Registry(frame.bus)][frame.idx + 1]

\* wrappedHandler's test before it calls the handler function.
ForwardsAll(handler, event) == TRUE
Forwards(handler, event) ==
    handler.w = 0 \/ event.type = Str(handler.eventType)

\* What send itself writes to handlers.current: nothing.
Emptied(reg) == <<>>
AfterSend(reg) == reg

\* Whether send hands the event to a queue and returns before the subscribers
\* are called: it does not, the forEach runs inside send.
QueuesAll == TRUE
Queued == FALSE

\* send(event) up to its forEach: the rejected candidate is reported and
\* dropped, the accepted one starts the enumeration.
send(bus, event) ==
    /\ InUserCode
    /\ Len(sends) < MaxSends
    /\ LET result == safeParse(event)
           sid == Len(sends) + 1
           call == [bus |-> bus, event |-> event, data |-> result.data,
                    snapshot |-> handlers[Registry(bus)],
                    parent |-> IF stack = <<>> THEN 0 ELSE Top.sid,
                    unsubscribed |-> FALSE]
       IN IF ~Accepted(result)
          THEN /\ console' = Append(console, event)
               /\ sends' = Append(sends, call @@ [status |-> "rejected"])
               /\ UNCHANGED stack
          ELSE /\ sends' = Append(sends, call @@
                           [status |-> IF Queued THEN "returned" ELSE "running"])
               /\ stack' = Append(stack,
                      [sid |-> sid, bus |-> bus,
                       event |-> Delivered(event, result),
                       idx |-> 0, pc |-> "iter"])
               /\ UNCHANGED console
    /\ handlers' = [handlers EXCEPT ![Registry(bus)] = AfterSend(@)]
    /\ UNCHANGED <<exc, caps, nextW, log, removed, comps>>

\* One turn of the forEach: the next entry is called with the event, or the
\* enumeration is over and send returns.
forEachStep ==
    /\ exc = NoError
    /\ stack # <<>>
    /\ Top.pc = "iter"
    /\ IF HasNext(Top)
       THEN LET h == NextHandler(Top)
                fwd == Forwards(h, Top.event)
            IN /\ log' = Append(log, [sid |-> Top.sid, handler |-> h,
                                      event |-> Top.event, fwd |-> fwd])
               /\ stack' = [stack EXCEPT ![Len(stack)] =
                              [@ EXCEPT !.idx = @ + 1,
                                        !.pc = IF fwd THEN "body" ELSE "iter"]]
               /\ UNCHANGED sends
       ELSE /\ stack' = Pop(stack)
            /\ sends' = [sends EXCEPT ![Top.sid].status = "returned"]
            /\ UNCHANGED log
    /\ UNCHANGED <<handlers, exc, caps, nextW, console, removed, comps>>

\* The handler function returns.
handlerReturn ==
    /\ exc = NoError
    /\ stack # <<>>
    /\ Top.pc = "body"
    /\ stack' = [stack EXCEPT ![Len(stack)].pc = "iter"]
    /\ UNCHANGED <<handlers, exc, caps, nextW, console, sends, log, removed, comps>>

\* Whether send wraps handler(event) in a try/catch: it does not.
CatchesAll == TRUE
SendCatches == FALSE

\* The handler function throws: the forEach and send are left, and the error
\* reaches the code that called send.
handlerThrow ==
    /\ exc = NoError
    /\ stack # <<>>
    /\ Top.pc = "body"
    /\ IF SendCatches
       THEN /\ stack' = [stack EXCEPT ![Len(stack)].pc = "iter"]
            /\ UNCHANGED <<exc, sends>>
       ELSE /\ stack' = Pop(stack)
            /\ exc' = SubscriberFault
            /\ sends' = [sends EXCEPT ![Top.sid].status = "raised"]
    /\ UNCHANGED <<handlers, caps, nextW, console, log, removed, comps>>

\* The handler function that called the failing send does not catch either.
propagate ==
    /\ exc # NoError
    /\ stack # <<>>
    /\ stack' = Pop(stack)
    /\ sends' = [sends EXCEPT ![Top.sid].status = "raised"]
    /\ UNCHANGED <<handlers, exc, caps, nextW, console, log, removed, comps>>

\* The code that made the failing call catches the error.
catch ==
    /\ exc # NoError
    /\ exc' = NoError
    /\ UNCHANGED <<handlers, stack, caps, nextW, console, sends, log, removed, comps>>

\* Components under a Provider.
Next ==
    \/ \E context \in Buses : useSend(context)
    \/ \E context \in Buses, fn \in Fns : useSubscribe(context, fn)
    \/ \E context \in Buses, eventType \in EventTypes, fn \in TypedFns :
          useEventHandler(context, eventType, fn)
    \/ \E c \in 1..MaxCaps : unsubscribe(c)
    \/ \E bus \in Buses, event \in Candidates : send(bus, event)
    \/ forEachStep
    \/ handlerReturn
    \/ handlerThrow
    \/ propagate
    \/ catch

Spec == Init /\ [][Next]_vars

\* Components rendered with no Provider above them as well.
RenderOutside ==
    \/ useSend(NoProvider)
    \/ \E fn \in Fns : useSubscribe(NoProvider, fn)
    \/ \E eventType \in EventTypes, fn \in TypedFns :
          useEventHandler(NoProvider, eventType, fn)

\* The tree of the hooks' own test: one Provider, and components outside it.
UnderProvider == {"A"}

NextOutside ==
    \/ RenderOutside
    \/ \E context \in UnderProvider : useSend(context)
    \/ \E context \in UnderProvider, fn \in Fns : useSubscribe(context, fn)
    \/ \E context \in UnderProvider, eventType \in EventTypes, fn \in TypedFns :
          useEventHandler(context, eventType, fn)
    \/ \E c \in 1..MaxCaps : unsubscribe(c)
    \/ \E bus \in UnderProvider, event \in Candidates : send(bus, event)
    \/ forEachStep
    \/ handlerReturn
    \/ handlerThrow
    \/ propagate
    \/ catch

SpecOutside == Init /\ [][NextOutside]_vars

\* One Provider whose send is given every kind of candidate.
NextSchema ==
    \/ \E context \in UnderProvider, fn \in Fns : useSubscribe(context, fn)
    \/ \E context \in UnderProvider, eventType \in EventTypes, fn \in TypedFns :
          useEventHandler(context, eventType, fn)
    \/ \E bus \in UnderProvider, event \in SchemaCandidates : send(bus, event)
    \/ forEachStep
    \/ handlerReturn

SpecSchema == Init /\ [][NextSchema]_vars

\* Components of one Provider that register through the hooks' effects.
NextHooks ==
    \/ \E i \in Comps, hook \in {"useSubscribe", "useEventHandler"},
          context \in UnderProvider, eventType \in EventTypes \cup {"*"},
          dep \in Deps, fn \in Fns :
          Mount(i, hook, context, eventType, dep, fn)
    \/ \E i \in Comps : RunEffect(i)
    \/ \E i \in Comps, eventType \in EventTypes \cup {"*"}, dep \in Deps,
          fn \in Fns :
          Rerender(i, eventType, dep, fn)
    \/ \E i \in Comps : Unmount(i)
    \/ \E bus \in UnderProvider, event \in HookEvents :
          Committed /\ Len(sends) < MaxHookSends /\ send(bus, event)
    \/ forEachStep
    \/ handlerReturn

SpecHooks == Init /\ [][NextHooks]_vars

(***************************************************************************)
(* Reading the history.                                                    *)
(***************************************************************************)
Valid(sid) == safeParse(sends[sid].event).success
Entries(sid) == { i \in DOMAIN log : log[i].sid = sid }
Calls(sid, h) == Cardinality({ i \in Entries(sid) : log[i].handler = h })
Reported(event) == \E j \in DOMAIN console : console[j] = event
\* Send a is still running when send s is called: s is made, directly or
\* not, by a subscriber that a is calling.
RECURSIVE IsNestedIn(_, _)
IsNestedIn(s, a) ==
    IF sends[s].parent = 0 THEN FALSE
    ELSE sends[s].parent = a \/ IsNestedIn(sends[s].parent, a)
\* The handler of closure c has not been unsubscribed from c's bus.
Kept(c) ==
    ~\E d \in DOMAIN caps :
        /\ caps[d].bus = caps[c].bus
        /\ caps[d].handler = caps[c].handler
        /\ caps[d].called
\* The sends made on c's bus after subscribe returned c.
SendsSince(c) ==
    { sid \in DOMAIN sends : sid > caps[c].at /\ sends[sid].bus = caps[c].bus }
\* The step is a call of send.
IsSendStep == Len(sends') = Len(sends) + 1
\* The step calls a subscriber.
IsInvocation == Len(log') = Len(log) + 1
NewEntry == log'[Len(log')]
\* The step is a call of subscribe.
IsSubscribeStep == Len(caps') = Len(caps) + 1
NewCap == caps'[Len(caps')]

(***************************************************************************)
(* C1: a candidate the validator rejects is delivered to no subscriber,    *)
(* typed or wildcard: send reports it with console.error and returns to    *)
(* its caller without raising, whatever the registry holds.                *)
(***************************************************************************)
C1_RejectedIsDropped ==
    /\ [](\A sid \in DOMAIN sends :
            ~Valid(sid) =>
                /\ sends[sid].status = "rejected"
                /\ Entries(sid) = {}
                /\ Reported(sends[sid].event))
    /\ [][(IsSendStep /\ ~safeParse(sends'[Len(sends')].event).success) =>
            /\ UNCHANGED <<handlers, stack, exc, log>>
            /\ Len(console') = Len(console) + 1]_vars

C1_Witness ==
    \E sid \in DOMAIN sends :
        /\ ~Valid(sid)
        /\ sends[sid].status = "rejected"
        /\ \E i, j \in DOMAIN sends[sid].snapshot :
              /\ sends[sid].snapshot[i].w = 0
              /\ sends[sid].snapshot[j].w > 0

(***************************************************************************)
(* C3: every subscriber of an accepted candidate is handed the validator's *)
(* output (safeParse's data), not the caller's candidate.                  *)
(***************************************************************************)
C3_DeliversValidated ==
    \A i \in DOMAIN log : log[i].event = sends[log[i].sid].data

(***************************************************************************)
(* C4: a handler registered with useEventHandler(D, h) is only ever called *)
(* with events whose type is D; events of another type pass its            *)
(* subscription without a call and without an error.                       *)
(***************************************************************************)
C4_TypedHandlerSeesOnlyItsType ==
    \A i \in DOMAIN log :
        log[i].handler.w > 0 =>
            (log[i].fwd => log[i].event.type = Str(log[i].handler.eventType))

C4_Witness ==
    /\ exc = NoError
    /\ \E i, j \in DOMAIN log :
          /\ log[i].handler.w > 0 /\ log[i].fwd
          /\ log[j].handler = log[i].handler /\ ~log[j].fwd
          /\ sends[log[j].sid].status = "returned"

(***************************************************************************)
(* C2: the subscribers called during one send of a valid event are exactly *)
(* those in the registry when send was called, each once, whatever the     *)
(* subscribers subscribe or unsubscribe meanwhile.                         *)
(***************************************************************************)
C2_ExactlyTheSnapshot ==
    \A sid \in DOMAIN sends :
        sends[sid].status = "returned" =>
            /\ \A h \in Range(sends[sid].snapshot) : Calls(sid, h) = 1
            /\ \A i \in Entries(sid) : log[i].handler \in Range(sends[sid].snapshot)

(***************************************************************************)
(* C5: once the closure returned by subscribe has been called, no send     *)
(* made afterwards calls its handler, until the handler is subscribed      *)
(* again.                                                                  *)
(***************************************************************************)
C5_NoCallAfterUnsubscribe ==
    [][IsInvocation =>
         \A r \in removed :
            (r.bus = sends[NewEntry.sid].bus /\ r.handler = NewEntry.handler)
               => NewEntry.sid <= r.at]_vars

C5_Witness ==
    \E r \in removed, sid \in DOMAIN sends :
        /\ sid > r.at
        /\ sends[sid].bus = r.bus
        /\ sends[sid].status = "returned"
        /\ Entries(sid) # {}
        /\ \E c \in DOMAIN caps : caps[c].handler = r.handler /\ caps[c].at < r.at

(***************************************************************************)
(* C6: calling the same unsubscribe closure a second time changes nothing  *)
(* in the registry, whatever was subscribed, unsubscribed or sent between  *)
(* the two calls.                                                          *)
(***************************************************************************)
C6_SecondCallIsNoOp ==
    [][\A c \in DOMAIN caps :
          (caps[c].called /\ unsubscribe(c)) => UNCHANGED handlers]_vars

(***************************************************************************)
(* C7: useSend, useEventHandler and useSubscribe with no Provider above    *)
(* throw at once an error whose message names the hook and                 *)
(* EventContext.Provider; no registry changes and no subscriber is called. *)
(***************************************************************************)
C7_OutsideProviderThrows ==
    [][/\ RenderOutside =>
            UNCHANGED <<handlers, stack, caps, nextW, console, sends, log>>
       /\ useSend(NoProvider) =>
            exc' = "useSend must be used within an EventContext.Provider"
       /\ (\E fn \in Fns : useSubscribe(NoProvider, fn)) =>
            exc' = "useSubscribe must be used within an EventContext.Provider"
       /\ (\E eventType \in EventTypes, fn \in TypedFns :
              useEventHandler(NoProvider, eventType, fn)) =>
            exc' = "useEventHandler must be used within an EventContext.Provider"
      ]_vars

C7_Witness ==
    /\ exc = "useEventHandler must be used within an EventContext.Provider"
    /\ \E b \in Buses : Len(handlers[b]) = 2
    /\ log # <<>>

(***************************************************************************)
(* C8: two Providers never cross-deliver: a send on one bus calls only     *)
(* subscribers registered on that bus, and subscribing or unsubscribing on *)
(* one bus leaves the registry of the other as it was.                     *)
(***************************************************************************)
C8_BusesAreIsolated ==
    /\ [](\A i \in DOMAIN log :
            \E c \in DOMAIN caps :
                /\ caps[c].bus = sends[log[i].sid].bus
                /\ caps[c].handler = log[i].handler)
    /\ [][/\ IsSubscribeStep =>
               \A o \in Buses \ {NewCap.bus} : handlers'[o] = handlers[o]
          /\ \A c \in DOMAIN caps :
               unsubscribe(c) =>
                  \A o \in Buses \ {caps[c].bus} : handlers'[o] = handlers[o]
          /\ (IsSendStep \/ IsInvocation) => UNCHANGED handlers]_vars

C8_Witness ==
    /\ \A b \in Buses : handlers[b] # <<>>
    /\ \A b \in Buses :
          \E i \in DOMAIN log :
             sends[log[i].sid].bus = b /\ sends[log[i].sid].status = "returned"

(***************************************************************************)
(* C9: a wildcard subscriber that stays subscribed is called exactly once  *)
(* for every valid event sent on its bus, in the order of the send calls.  *)
(***************************************************************************)
C9_EveryEventOnceInOrder ==
    \A c \in DOMAIN caps :
        (caps[c].handler.w = 0 /\ Kept(c)) =>
            /\ \A sid \in SendsSince(c) :
                  (Valid(sid) /\ sends[sid].status # "running") =>
                      Calls(sid, caps[c].handler) = 1
            /\ \A i, j \in DOMAIN log :
                  ( /\ i < j
                    /\ log[i].handler = caps[c].handler
                    /\ log[j].handler = caps[c].handler
                    /\ log[i].sid \in SendsSince(c)
                    /\ log[j].sid \in SendsSince(c) )
                  => log[i].sid < log[j].sid

(***************************************************************************)
(* C9 as amended: a wildcard subscriber that stays subscribed is called    *)
(* exactly once for every valid event of a send on its bus that returns    *)
(* without a subscriber raising, never twice for one send, and it gets the *)
(* events of two sends in the order of the calls unless the later send was *)
(* made by a subscriber while the earlier one was still dispatching.       *)
(***************************************************************************)
C9_EveryCompletedEventOnce ==
    \A c \in DOMAIN caps :
        (caps[c].handler.w = 0 /\ Kept(c)) =>
            /\ \A sid \in SendsSince(c) :
                  /\ Calls(sid, caps[c].handler) <= 1
                  /\ (Valid(sid) /\ sends[sid].status = "returned") =>
                        Calls(sid, caps[c].handler) = 1
            /\ \A i, j \in DOMAIN log :
                  ( /\ i < j
                    /\ log[i].handler = caps[c].handler
                    /\ log[j].handler = caps[c].handler
                    /\ log[i].sid \in SendsSince(c)
                    /\ log[j].sid \in SendsSince(c)
                    /\ ~IsNestedIn(log[i].sid, log[j].sid) )
                  => log[i].sid < log[j].sid

C9_Witness ==
    \E c \in DOMAIN caps :
        /\ caps[c].handler.w = 0 /\ Kept(c)
        /\ \E s1, s2 \in SendsSince(c) :
              /\ s1 < s2
              /\ sends[s1].status = "returned" /\ sends[s2].status = "returned"
              /\ sends[s1].event # sends[s2].event
              /\ Calls(s1, caps[c].handler) = 1
              /\ Calls(s2, caps[c].handler) = 1

(***************************************************************************)
(* C10: send does not catch what a subscriber throws: the error reaches    *)
(* the caller of send, the subscribers behind the failing one are not      *)
(* called for that event, and the registry is as it was.                   *)
(***************************************************************************)
C10_FaultPropagates ==
    /\ [][handlerThrow =>
            /\ exc' = SubscriberFault
            /\ stack' = Pop(stack)
            /\ sends'[Top.sid].status = "raised"
            /\ UNCHANGED <<handlers, log>>]_vars
    /\ [][IsInvocation => sends[NewEntry.sid].status = "running"]_vars

C10_Witness ==
    /\ exc = SubscriberFault
    /\ stack = <<>>
    /\ \E sid \in DOMAIN sends :
          /\ sends[sid].status = "raised"
          /\ \E h \in Range(sends[sid].snapshot) :
                /\ Calls(sid, h) = 0
                /\ h \in Range(handlers[sends[sid].bus])

(***************************************************************************)
(* C11: delivery is synchronous: a subscriber is only ever called for a    *)
(* send that is still running, and a send that has returned has left       *)
(* nothing behind to be delivered later.                                   *)
(***************************************************************************)
C11_DeliveryInsideSend ==
    /\ [](\A sid \in DOMAIN sends :
            sends[sid].status # "running" =>
                \A i \in DOMAIN stack : stack[i].sid # sid)
    /\ [][IsInvocation =>
            /\ sends[NewEntry.sid].status = "running"
            /\ \E i \in DOMAIN stack : stack[i].sid = NewEntry.sid]_vars

C11_Witness ==
    /\ stack = <<>>
    /\ \E sid \in DOMAIN sends :
          /\ sends[sid].status = "returned"
          /\ Cardinality(Entries(sid)) = 2
          /\ \E c \in DOMAIN caps : caps[c].at >= sid /\ caps[c].bus = sends[sid].bus

(***************************************************************************)
(* C14: a send made by a subscriber during a dispatch is dispatched at     *)
(* once: its event reaches every subscriber in the registry before that    *)
(* nested send returns and before the outer dispatch calls its next        *)
(* subscriber; nothing is queued.                                          *)
(***************************************************************************)
\* Send sid returns in this step.
ReturnsNow(sid) ==
    /\ sid \in DOMAIN sends'
    /\ sends'[sid].status = "returned"
    /\ (sid \in DOMAIN sends => sends[sid].status = "running")

C14_NestedSendRunsAtOnce ==
    /\ [][IsInvocation =>
            \A t \in DOMAIN sends :
                sends[t].status = "running" => t <= NewEntry.sid]_vars
    /\ [][\A sid \in DOMAIN sends' :
            (ReturnsNow(sid) /\ sends'[sid].parent # 0) =>
                \A h \in Range(handlers'[sends'[sid].bus]) :
                    \E i \in DOMAIN log' :
                        log'[i].sid = sid /\ log'[i].handler = h]_vars

C14_Witness ==
    \E i, j, k \in DOMAIN log :
        /\ i < j /\ j < k
        /\ log[i].sid = log[k].sid
        /\ sends[log[j].sid].parent = log[i].sid
        /\ sends[log[j].sid].status = "returned"
        /\ sends[log[i].sid].status = "returned"

(***************************************************************************)
(* C13: when a subscriber calls an unsubscribe closure of the bus while a  *)
(* send of that bus is dispatching, the enumeration stays inside the       *)
(* registry and no subscriber is called twice for that send.               *)
(***************************************************************************)
C13_UnsubscribeDuringDispatchIsSafe ==
    /\ \A i \in DOMAIN stack :
          stack[i].idx <= Len(handlers[Registry(stack[i].bus)])
    /\ \A sid \in DOMAIN sends :
          sends[sid].unsubscribed =>
              \A i, j \in Entries(sid) :
                  i # j => log[i].handler # log[j].handler

(***************************************************************************)
(* C16: only subscribe and the unsubscribe closures change the registry:   *)
(* no step of send (the validation, a turn of the forEach, a return or a   *)
(* throw) does, so with no subscribe and no unsubscribe since a send was   *)
(* called the registry is the one the send found.                          *)
(***************************************************************************)
C16_OnlySubscribeAndUnsubscribeWrite ==
    /\ [][handlers' # handlers =>
            (IsSubscribeStep \/ \E c \in DOMAIN caps : unsubscribe(c))]_vars
    /\ [][(IsSendStep \/ IsInvocation \/ Len(stack') < Len(stack)) =>
            UNCHANGED handlers]_vars
    /\ [](\A sid \in DOMAIN sends :
            (\A c \in DOMAIN caps : caps[c].at < sid /\ ~caps[c].called) =>
                handlers[Registry(sends[sid].bus)] = sends[sid].snapshot)

C16_Witness ==
    \E s, t \in DOMAIN sends :
        /\ sends[s].status = "returned"
        /\ sends[t].status = "rejected"
        /\ sends[s].bus = sends[t].bus
        /\ Cardinality(Entries(s)) = 2
        /\ \A c \in DOMAIN caps : caps[c].at < s /\ caps[c].at < t /\ ~caps[c].called
        /\ handlers[Registry(sends[s].bus)] = sends[s].snapshot

(***************************************************************************)
(* C17: no event is kept for later subscribers: whenever a handler is      *)
(* called with the event of a send, that handler was subscribed on the bus *)
(* before the send was called or while the send was still dispatching,     *)
(* never after the send had returned.                                      *)
(***************************************************************************)
C17_NoReplayToLateSubscriber ==
    \A i \in DOMAIN log :
        \E c \in DOMAIN caps :
            /\ caps[c].bus = sends[log[i].sid].bus
            /\ caps[c].handler = log[i].handler
            /\ (caps[c].at < log[i].sid \/ log[i].sid \in caps[c].running)

C17_Witness ==
    \E c \in DOMAIN caps, s, t \in DOMAIN sends :
        /\ s <= caps[c].at /\ caps[c].at < t
        /\ s \notin caps[c].running
        /\ sends[s].bus = caps[c].bus /\ sends[t].bus = caps[c].bus
        /\ sends[s].status = "returned" /\ sends[t].status = "returned"
        /\ Entries(s) # {}
        /\ \A i \in Entries(s) : log[i].handler # caps[c].handler
        /\ \E i \in Entries(t) : log[i].handler = caps[c].handler

(***************************************************************************)
(* C12: every accepted and delivered event matches exactly one variant of  *)
(* the schema and has that variant's keys and no others; a candidate with  *)
(* a declared key missing or with an undeclared key is rejected and no     *)
(* subscriber is called with it.                                           *)
(***************************************************************************)
C12_ExactlyTheVariantsFields ==
    LET IsClick(e) == /\ e.type = Str("CLICK")
                      /\ e.f["x"].t = "number" /\ e.f["y"].t = "number"
                      /\ e.f["elementId"] = Undefined /\ e.f["extra"] = Undefined
        IsHover(e) == /\ e.type = Str("HOVER")
                      /\ e.f["elementId"].t = "string"
                      /\ e.f["x"] = Undefined /\ e.f["y"] = Undefined
                      /\ e.f["extra"] = Undefined
    IN /\ \A sid \in DOMAIN sends :
             IF IsClick(sends[sid].event) # IsHover(sends[sid].event)
             THEN sends[sid].status # "rejected"
             ELSE /\ sends[sid].status = "rejected"
                  /\ Entries(sid) = {}
       /\ \A i \in DOMAIN log : IsClick(log[i].event) # IsHover(log[i].event)

(***************************************************************************)
(* C12, as the validator works: every accepted and delivered event matches *)
(* exactly one variant of the schema, with every key the variant declares  *)
(* present and of the declared type; a candidate with a declared key       *)
(* missing or of another type, or with an unlisted discriminant, is        *)
(* rejected, reported and given to no subscriber; keys the variant does    *)
(* not declare do not make a candidate rejected.                           *)
(***************************************************************************)
C12_AcceptedMatchesOneVariant ==
    LET IsClick(e) == /\ e.type = Str("CLICK")
                      /\ e.f["x"].t = "number" /\ e.f["y"].t = "number"
        IsHover(e) == /\ e.type = Str("HOVER")
                      /\ e.f["elementId"].t = "string"
    IN /\ \A sid \in DOMAIN sends :
             IF IsClick(sends[sid].event) # IsHover(sends[sid].event)
             THEN sends[sid].status # "rejected"
             ELSE /\ sends[sid].status = "rejected"
                  /\ Entries(sid) = {}
                  /\ Reported(sends[sid].event)
       /\ \A i \in DOMAIN log : IsClick(log[i].event) # IsHover(log[i].event)

C12_Witness ==
    \E s, t \in DOMAIN sends :
        /\ sends[s].event = PartialClick
        /\ sends[s].status = "rejected"
        /\ sends[s].snapshot # <<>>
        /\ sends[t].event \in {ExtraClick, ExtraHover}
        /\ sends[t].status = "returned"
        /\ Entries(t) # {}

(***************************************************************************)
(* C15: while a component that registered through a hook is mounted and    *)
(* its keys have not changed, the subscriber its effect registered is in   *)
(* the registry, once the effects of the commit have run; when it unmounts *)
(* or one of its keys changes, the cleanup takes that subscriber out of    *)
(* the registry; whatever the other components of the bus mount, change or *)
(* unmount.                                                                *)
(***************************************************************************)
C15_RegisteredWhileMounted ==
    /\ [](Committed =>
            \A i \in Comps :
                comps[i].mounted =>
                    comps[i].registered
                        \in Range(handlers[Registry(comps[i].context)]))
    /\ [][\A i \in Comps :
            (/\ comps[i].mounted /\ comps[i].phase = "idle"
             /\ (~comps'[i].mounted \/ comps'[i].phase = "effect")) =>
                comps[i].registered
                    \notin Range(handlers'[Registry(comps[i].context)])]_vars

(***************************************************************************)
(* C18: a render of a mounted component that passes another handler        *)
(* function with the same context, event type and deps entry registers     *)
(* nothing and unregisters nothing, and every subscriber called afterwards *)
(* is the one some mounted component's last effect registered, with the    *)
(* handler function of that time.                                          *)
(***************************************************************************)
C18_KeysDriveRegistration ==
    /\ [][\A i \in Comps :
            (/\ comps[i].mounted /\ comps[i].phase = "idle"
             /\ comps'[i].mounted
             /\ comps'[i].fn # comps[i].fn
             /\ comps'[i].context = comps[i].context
             /\ comps'[i].eventType = comps[i].eventType
             /\ comps'[i].dep = comps[i].dep) =>
                /\ UNCHANGED <<handlers, caps>>
                /\ comps'[i].phase = "idle"
                /\ comps'[i].registered = comps[i].registered]_vars
    /\ [][IsInvocation =>
            \E i \in Comps :
                /\ comps[i].mounted
                /\ comps[i].registered = NewEntry.handler]_vars

C18_Witness ==
    \E i, j \in Comps :
        /\ comps[i].hook = "useSubscribe" /\ comps[j].hook = "useEventHandler"
        /\ \A c \in {i, j} :
              /\ comps[c].mounted /\ comps[c].phase = "idle"
              /\ comps[c].fn # comps[c].registered.fn
              /\ \E k \in DOMAIN log :
                    /\ log[k].handler = comps[c].registered
                    /\ log[k].fwd
                    /\ log[k].sid > comps[c].at
                    /\ sends[log[k].sid].status = "returned"

====
